---- MODULE Spec2Model ----
(***************************************************************************)
(* A model of the scene reader of raycast.c: the character cursor          *)
(* (next_c, expect_c, skip_ws, next_string, next_number, next_vector) and  *)
(* read_scene, run over the bytes of a scene file.                         *)
(*                                                                         *)
(* Characters are their ASCII codes, as fgetc returns them; EOF is -1.     *)
(* Numbers in the files are integer literals (an optional sign, digits)    *)
(* and the literal nan.  The scene files tried are rendered from a         *)
(* description (scene): a sequence of objects, a whitespace style and a    *)
(* length at which the file is cut off.                                    *)
(*                                                                         *)
(* Three specifications: Spec runs read_scene on a file; SpecLexer calls   *)
(* next_string and next_vector on their own; SpecGeometry calls            *)
(* plane_intersection and sphere_intersection on their own.                *)
(***************************************************************************)
EXTENDS Integers, Sequences, FiniteSets, TLC

(***************************************************************************)
(* Bounds of the exploration.                                              *)
(***************************************************************************)
\* objects that come before the last object of a scene
MaxLead == 2
\* reads of the top-level loop that are followed once the stream is at EOF
MaxEofReads == 2

(***************************************************************************)
(* Characters.                                                             *)
(***************************************************************************)
EOF == -1
NL == 10
SP == 32
QUOTE == 34
PLUS == 43
COMMA == 44
MINUS == 45
ZERO == 48
NINE == 57
COLON == 58
LBRACKET == 91
BACKSLASH == 92
RBRACKET == 93
LBRACE == 123
RBRACE == 125

\* the size of next_string's buffer less the terminating zero
MaxString == 128
\* the number of Objects allocated for the scene array
Capacity == 1000

\* isspace() in the C locale
isspace(c) == c \in {9, 10, 11, 12, 13, 32}

\* the words the reader compares keys and types with
W_type == <<116, 121, 112, 101>>
W_camera == <<99, 97, 109, 101, 114, 97>>
W_sphere == <<115, 112, 104, 101, 114, 101>>
W_plane == <<112, 108, 97, 110, 101>>
W_light == <<108, 105, 103, 104, 116>>
W_width == <<119, 105, 100, 116, 104>>
W_height == <<104, 101, 105, 103, 104, 116>>
W_color == <<99, 111, 108, 111, 114>>
W_radius == <<114, 97, 100, 105, 117, 115>>
W_position == <<112, 111, 115, 105, 116, 105, 111, 110>>
W_normal == <<110, 111, 114, 109, 97, 108>>
W_empty == <<>>
\* words the reader does not know
W_foo == <<102, 111, 111>>
W_kind == <<107, 105, 110, 100>>
W_blob == <<98, 108, 111, 98>>

\* the literal fscanf("%lf") reads as a NaN
W_nan == <<110, 97, 110>>

\* the double NaN, held as a number that no literal of the files tried writes;
\* every comparison of doubles goes through lt, which is false on it
NaN == 1000000
lt(x, y) == x # NaN /\ y # NaN /\ x < y

\* the value of a double that was never assigned and is never compared
Indet == "indeterminate"
\* the values tried for a double that is read before it was assigned
Garbage == {-1, 1, NaN}

(***************************************************************************)
(* Scene descriptions and the text of the file they stand for.             *)
(* An object is [hdr, type, fields]; a field is [key, val]; a value is     *)
(* <<n>> (a number), <<a, b, c>> (a vector) or <<>> (nothing).             *)
(***************************************************************************)
Fld(k, v) == [key |-> k, val |-> v]
Obj(h, t, fs) == [hdr |-> h, type |-> t, fields |-> fs]

RECURSIVE Digits(_)
Digits(n) == IF n < 10 THEN <<ZERO + n>> ELSE Append(Digits(n \div 10), ZERO + (n % 10))

Number(n) ==
  IF n = NaN THEN W_nan
  ELSE IF n < 0 THEN <<MINUS>> \o Digits(-n)
  ELSE Digits(n)

Quoted(w) == <<QUOTE>> \o w \o <<QUOTE>>

RenderValue(v) ==
  IF Len(v) = 0 THEN <<>>
  ELSE IF Len(v) = 1 THEN Number(v[1])
  ELSE <<LBRACKET>> \o Number(v[1]) \o <<COMMA>> \o Number(v[2]) \o <<COMMA>>
         \o Number(v[3]) \o <<RBRACKET>>

RenderField(f, ws) == Quoted(f.key) \o ws \o <<COLON>> \o ws \o RenderValue(f.val)

RECURSIVE RenderFields(_, _)
RenderFields(fs, ws) ==
  IF fs = <<>> THEN <<>>
  ELSE <<COMMA>> \o ws \o RenderField(Head(fs), ws) \o RenderFields(Tail(fs), ws)

\* object := '{' ws '"type"' ws ':' ws string (',' ws field)* ws '}'
RenderObject(o, ws) ==
  <<LBRACE>> \o ws \o Quoted(o.hdr) \o ws \o <<COLON>> \o ws \o Quoted(o.type)
    \o RenderFields(o.fields, ws)
    \o (IF o.fields = <<>> THEN <<>> ELSE ws) \o <<RBRACE>>

RECURSIVE RenderObjects(_, _)
RenderObjects(os, ws) ==
  IF os = <<>> THEN <<>>
  ELSE IF Len(os) = 1 THEN RenderObject(os[1], ws)
  ELSE RenderObject(Head(os), ws) \o <<COMMA>> \o ws \o RenderObjects(Tail(os), ws)

\* scene := '[' ws object (',' ws object)* ws ']' | '[' ws ']', after optional whitespace
Render(os, ws) == ws \o <<LBRACKET>> \o ws \o RenderObjects(os, ws) \o ws \o <<RBRACKET>>

(***************************************************************************)
(* The objects a scene file is made of.                                    *)
(***************************************************************************)
CameraFields(w, h) == <<Fld(W_width, <<w>>), Fld(W_height, <<h>>)>>
SphereFields == <<Fld(W_color, <<0, 255, 7>>), Fld(W_position, <<0, 0, -5>>), Fld(W_radius, <<2>>)>>
PlaneFields == <<Fld(W_color, <<0, 255, 7>>), Fld(W_position, <<0, -1, 0>>), Fld(W_normal, <<0, 1, 0>>)>>
LightFields == <<Fld(W_color, <<255, 0, 7>>), Fld(W_position, <<0, 9, 0>>)>>

\* the fields every object of a kind is to give
Required(t) ==
  IF t = W_camera THEN CameraFields(2, 3)
  ELSE IF t = W_sphere THEN SphereFields
  ELSE IF t = W_plane THEN PlaneFields
  ELSE LightFields

Kinds == {W_camera, W_sphere, W_plane, W_light}

Drop(fs, j) == SubSeq(fs, 1, j - 1) \o SubSeq(fs, j + 1, Len(fs))
Dup(fs, j) == Append(fs, fs[j])
Replace(fs, j, v) == [fs EXCEPT ![j] = Fld(fs[j].key, v)]

\* colours with one channel out of range
BadColors == {<<-1, 0, 0>>, <<0, 256, 0>>, <<0, 0, 256>>, <<0, 0, -1>>}

FullObjects == {Obj(W_type, t, Required(t)) : t \in Kinds}

FaultyObjects ==
  UNION {
    {Obj(W_type, t, Drop(Required(t), j)) : j \in 1..Len(Required(t))}
    \cup {Obj(W_type, t, Dup(Required(t), j)) : j \in 1..Len(Required(t))}
    \cup {Obj(W_type, t, Append(Required(t), Fld(W_foo, <<5>>)))}
    \cup (IF t = W_camera
            THEN {Obj(W_type, t, CameraFields(0, 3)), Obj(W_type, t, CameraFields(2, 0)),
                  Obj(W_type, t, <<Fld(W_width, <<>>), Fld(W_height, <<3>>)>>)}
            ELSE {Obj(W_type, t, Replace(Required(t), 1, c)) : c \in BadColors})
    : t \in Kinds}
  \cup {Obj(W_type, W_sphere, Replace(SphereFields, 3, <<0>>)),
        Obj(W_type, W_sphere, Replace(SphereFields, 3, <<NaN>>)),
        Obj(W_type, W_sphere, Replace(SphereFields, 1, <<0, NaN, 0>>)),
        Obj(W_type, W_camera, CameraFields(NaN, 3)),
        Obj(W_type, W_plane, Replace(PlaneFields, 1, <<255, 255, 255>>)),
        Obj(W_type, W_plane, Append(Drop(PlaneFields, 3), Fld(W_empty, <<0, 1, 0>>))),
        Obj(W_type, W_plane, Append(PlaneFields, Fld(W_normal, <<0, 1, 0>>))),
        Obj(W_type, W_light, Append(LightFields, Fld(W_normal, <<0, 1, 0>>))),
        Obj(W_type, W_light, <<>>),
        Obj(W_kind, W_camera, CameraFields(2, 3)),
        Obj(W_kind, W_blob, <<>>),
        Obj(W_type, W_blob, <<>>)}

TestObjects == FullObjects \cup FaultyObjects

\* the objects that come before the object tried
Leads == {Obj(W_type, W_camera, CameraFields(1, 1)), Obj(W_type, W_sphere, SphereFields)}
LeadSeqs == UNION {[1..n -> Leads] : n \in 0..MaxLead}

Styles == {<<>>, <<NL, SP>>}

Sc(os, ws, n, e) == [objs |-> os, ws |-> ws, cut |-> n, exists |-> e]

\* whole files
WholeScenes ==
  {Sc(l \o <<t>>, ws, Len(Render(l \o <<t>>, ws)), TRUE) :
     l \in LeadSeqs, t \in TestObjects, ws \in Styles}
  \cup {Sc(<<>>, ws, Len(Render(<<>>, ws)), TRUE) : ws \in Styles \cup {<<SP>>}}

\* files that end early
CutBases == {<<Obj(W_type, W_camera, CameraFields(1, 1)), t>> : t \in FullObjects}
CutScenes ==
  UNION {{Sc(os, <<>>, n, TRUE) : n \in 0..(Len(Render(os, <<>>)) - 1)} : os \in CutBases}
  \cup {Sc(<<>>, <<NL, SP>>, n, TRUE) : n \in 0..5}

\* a file that cannot be opened
NoFile == Sc(<<>>, <<>>, 0, FALSE)

\* files with so much whitespace between the tokens that the loop's counter
\* passes the capacity of the array before the second object
LongStyle == [n \in 1..(Capacity \div 10) |-> SP]
LongScenes ==
  {Sc(<<Obj(W_type, W_camera, CameraFields(1, 1)), t>>, LongStyle,
      Len(Render(<<Obj(W_type, W_camera, CameraFields(1, 1)), t>>, LongStyle)), TRUE) :
     t \in {Obj(W_type, W_camera, CameraFields(2, 3)), Obj(W_type, W_sphere, SphereFields)}}

Scenes == WholeScenes \cup CutScenes \cup LongScenes \cup {NoFile}

TextOf(sc) == SubSeq(Render(sc.objs, sc.ws), 1, sc.cut)

(***************************************************************************)
(* The state.                                                              *)
(***************************************************************************)
VARIABLES
  scene,        \* the description of the file
  input,        \* the bytes of the file
  json,         \* the stream handle: "none", "open" or "closed"
  pos,          \* the index of the next byte fgetc returns
  line,         \* the global line counter
  pc,           \* where read_scene is
  status,       \* "running", "exit0", "exit1" or "killed"
  err,          \* the message of the error that ended the run
  i,            \* the index into the scene array
  cam,          \* the camera object read_scene keeps
  obj,          \* the sphere, plane or light object being read
  objectArray,  \* the scene array: the slots written so far
  call          \* a call of a function on its own: the arguments and the result

vars == <<scene, input, json, pos, line, pc, status, err, i, cam, obj, objectArray, call>>

(***************************************************************************)
(* The cursor.  A cursor value is [pos, line, err] and what the operation  *)
(* read; err # "" says the operation ended the process with exit(1), and   *)
(* every operation passes such a value on unchanged.  An operation is      *)
(* written as its call of the operation before it and an operator for the  *)
(* statements after that call.                                             *)
(***************************************************************************)
At(p) == IF p >= 1 /\ p <= Len(input) THEN input[p] ELSE EOF

Cursor(p, l) == [pos |-> p, line |-> l, err |-> ""]
Err(s, e) == [pos |-> s.pos, line |-> s.line, err |-> e]

\* next_c after c = fgetc(json)
next_c_got(s, c) ==
  IF c = EOF THEN Err(s, "eof")
  ELSE [pos |-> s.pos + 1, line |-> IF c = NL THEN s.line + 1 ELSE s.line,
        err |-> "", c |-> c]

next_c(s) == IF s.err # "" THEN s ELSE next_c_got(s, At(s.pos))

\* expect_c after c = next_c(json)
expect_c_got(r, d) ==
  IF r.err # "" THEN r
  ELSE IF r.c = d THEN r
  ELSE Err(r, "expected")

expect_c(s, d) == expect_c_got(next_c(s), d)

RECURSIVE skip_loop(_)
skip_loop(r) == IF r.err = "" /\ isspace(r.c) THEN skip_loop(next_c(r)) ELSE r

\* ungetc(c, json)
unget(r) == IF r.err # "" THEN r ELSE Cursor(r.pos - 1, r.line)

skip_ws(s) == unget(skip_loop(next_c(s)))

RECURSIVE string_loop(_, _)
string_loop(r, buffer) ==
  IF r.err # "" THEN r
  ELSE IF r.c = QUOTE THEN [pos |-> r.pos, line |-> r.line, err |-> "", str |-> buffer]
  ELSE IF Len(buffer) >= MaxString THEN Err(r, "string_too_long")
  ELSE IF r.c = BACKSLASH THEN Err(r, "string_escape")
  ELSE IF r.c < 32 \/ r.c > 126 THEN Err(r, "string_ascii")
  ELSE string_loop(next_c(r), Append(buffer, r.c))

\* next_string after its first c = next_c(json)
string_open(r) ==
  IF r.err # "" THEN r
  ELSE IF r.c # QUOTE THEN Err(r, "expected_string")
  ELSE string_loop(next_c(r), <<>>)

next_string(s) == string_open(next_c(s))

\* fscanf("%lf") on an integer literal: whitespace, a sign, digits
RECURSIVE SpaceEnd(_)
SpaceEnd(p) == IF isspace(At(p)) THEN SpaceEnd(p + 1) ELSE p

SignEnd(p) == IF At(p) \in {PLUS, MINUS} THEN p + 1 ELSE p

IsDigit(c) == c >= ZERO /\ c <= NINE

RECURSIVE DigitEnd(_)
DigitEnd(p) == IF IsDigit(At(p)) THEN DigitEnd(p + 1) ELSE p

RECURSIVE DigitsValue(_, _)
DigitsValue(p, q) == IF q < p THEN 0 ELSE 10 * DigitsValue(p, q - 1) + (At(q) - ZERO)

\* the number whose sign is at p1 or absent and whose digits are p2 .. p3 - 1;
\* with no digit nothing is assigned and value is g.  A scan that reaches the
\* end of the file sets the stream's end-of-file indicator
scanned(s, p1, p2, p3, g) ==
  IF At(p3) = EOF THEN Err(Cursor(p3, s.line), "eof_number")
  ELSE [pos |-> p3, line |-> s.line, err |-> "",
        val |-> IF p3 = p2 THEN g
                ELSE IF At(p1) = MINUS THEN 0 - DigitsValue(p2, p3 - 1)
                ELSE DigitsValue(p2, p3 - 1)]

\* the literal nan at p
AtNan(p) == At(p) = W_nan[1] /\ At(p + 1) = W_nan[2] /\ At(p + 2) = W_nan[3]

\* the literal nan was read up to p3
scanned_nan(s, p3) ==
  IF At(p3) = EOF THEN Err(Cursor(p3, s.line), "eof_number")
  ELSE [pos |-> p3, line |-> s.line, err |-> "", val |-> NaN]

scan_digits(s, p1, p2, g) ==
  IF AtNan(p2) THEN scanned_nan(s, p2 + 3) ELSE scanned(s, p1, p2, DigitEnd(p2), g)

scan_sign(s, p1, g) == scan_digits(s, p1, SignEnd(p1), g)

\* g is what value holds when fscanf assigns nothing
next_number(s, g) == IF s.err # "" THEN s ELSE scan_sign(s, SpaceEnd(s.pos), g)

\* the n-th statement of next_vector after the malloc, of thirteen:
\* expect_c '[', skip_ws, v[0] = next_number, skip_ws, expect_c ',', skip_ws,
\* v[1] = next_number, skip_ws, expect_c ',', skip_ws, v[2] = next_number,
\* skip_ws, expect_c ']'
vector_statement(n, s, g) ==
  IF n = 1 THEN expect_c(s, LBRACKET)
  ELSE IF n \in {5, 9} THEN expect_c(s, COMMA)
  ELSE IF n = 13 THEN expect_c(s, RBRACKET)
  ELSE IF n \in {3, 7, 11} THEN next_number(s, g[(n + 1) \div 4])
  ELSE skip_ws(s)

\* the statements from the n-th on, v holding the numbers assigned so far
RECURSIVE vector_from(_, _, _, _)
RECURSIVE vector_after(_, _, _, _)
vector_from(n, s, g, v) ==
  IF s.err # "" THEN s
  ELSE IF n > 13 THEN [pos |-> s.pos, line |-> s.line, err |-> "", val |-> v]
  ELSE vector_after(n, vector_statement(n, s, g), g, v)

\* r is the cursor after the n-th statement
vector_after(n, r, g, v) ==
  vector_from(n + 1, r, g, IF n \in {3, 7, 11} /\ r.err = "" THEN Append(v, r.val) ELSE v)

\* g is the three values the numbers hold when fscanf assigns nothing
next_vector(s, g) == vector_from(1, s, g, <<>>)

(***************************************************************************)
(* Objects.                                                                *)
(***************************************************************************)
Indet3 == <<Indet, Indet, Indet>>

NoObject == [member |-> "none"]

\* read_scene calls neither intersection function
NoCall == [fn |-> "none"]

\* Object cam; cam.camera.height = -1; cam.camera.width = -1;
InitialCam ==
  [member |-> "camera", type |-> Indet, color |-> Indet3, position |-> Indet3,
   colorGiven |-> Indet, positionGiven |-> Indet,
   width |-> -1, height |-> -1, widthGiven |-> Indet, heightGiven |-> Indet]

\* Object aSphere; with its type and its three flags set
NewSphere(value) ==
  [member |-> "sphere", type |-> value, color |-> Indet3, position |-> Indet3,
   colorGiven |-> FALSE, positionGiven |-> FALSE,
   radius |-> Indet, radiusGiven |-> FALSE]

\* Object aPlane; with its type and two flags set: plane.normalGiven is not
\* set, g is the value it happens to hold
NewPlane(value, g) ==
  [member |-> "plane", type |-> value, color |-> Indet3, position |-> Indet3,
   colorGiven |-> FALSE, positionGiven |-> FALSE,
   normal |-> Indet3, normalGiven |-> g]

ColorInvalid(v) ==
  lt(v[1], 0) \/ lt(255, v[1]) \/ lt(v[2], 0) \/ lt(255, v[2]) \/ lt(v[3], 0) \/ lt(255, v[3])

\* objectArray[i] = o
Store(k, o) == (k :> o) @@ objectArray

(***************************************************************************)
(* How a step leaves the cursor and the process.                           *)
(***************************************************************************)
\* exit(1) with the stream left as it is
Exit1(r) ==
  /\ pos' = r.pos
  /\ line' = r.line
  /\ status' = "exit1"
  /\ err' = r.err
  /\ pc' = "exit"

Goto(r, l) ==
  /\ pos' = r.pos
  /\ line' = r.line
  /\ status' = status
  /\ err' = err
  /\ pc' = l

Continue(r, l) == IF r.err # "" THEN Exit1(r) ELSE Goto(r, l)

\* the process is ended by a signal
Killed(r) ==
  /\ pos' = r.pos
  /\ line' = r.line
  /\ status' = "killed"
  /\ err' = err
  /\ pc' = "exit"

Here == Cursor(pos, line)

(***************************************************************************)
(* read_scene.                                                             *)
(***************************************************************************)
Init ==
  /\ scene \in Scenes
  /\ input = TextOf(scene)
  /\ json = "none"
  /\ pos = 1
  /\ line = 1
  /\ pc = "open"
  /\ status = "running"
  /\ err = ""
  /\ i = 0
  /\ cam = NoObject
  /\ obj = NoObject
  /\ objectArray = <<>>
  /\ call = NoCall

\* fopen returns NULL
OpenFails ==
  /\ pc = "open"
  /\ ~scene.exists
  /\ Exit1(Err(Here, "could_not_open"))
  /\ UNCHANGED <<call, scene, input, json, i, cam, obj, objectArray>>

\* FirstChar without the test for an empty scene
FirstChar_NoEmptyTest(r) ==
  IF r.err # ""
    THEN /\ Exit1(r)
         /\ json' = "open"
         /\ UNCHANGED <<cam, i>>
    ELSE /\ Goto(Cursor(r.pos + 1, r.line), "loop")
         /\ json' = "open"
         /\ cam' = InitialCam
         /\ i' = 0

\* r is the cursor after skip_ws, expect_c '[', skip_ws: c = fgetc(json), the
\* test for an empty scene, and the declarations before the loop
FirstChar(r) ==
  IF r.err # ""
    THEN /\ Exit1(r)
         /\ json' = "open"
         /\ UNCHANGED <<cam, i>>
    ELSE IF At(r.pos) = RBRACKET
      THEN /\ Exit1(Err(Cursor(r.pos + 1, r.line), "empty_scene"))
           /\ json' = "closed"
           /\ UNCHANGED <<cam, i>>
      ELSE /\ Goto(Cursor(r.pos + 1, r.line), "loop")
           /\ json' = "open"
           /\ cam' = InitialCam
           /\ i' = 0

\* from fopen to the loop
Open ==
  /\ pc = "open"
  /\ scene.exists
  /\ FirstChar(skip_ws(expect_c(skip_ws(Here), LBRACKET)))
  /\ UNCHANGED <<call, scene, input, obj, objectArray>>

\* the loop reads ']'
ArrayClose ==
  /\ pc = "loop"
  /\ At(pos) = RBRACKET
  /\ pos' = pos + 1
  /\ json' = "closed"
  /\ status' = "exit0"
  /\ pc' = "exit"
  /\ UNCHANGED <<call, scene, input, line, err, i, cam, obj, objectArray>>

\* the loop reads a character that is neither ']' nor '{', EOF included
SkipChar ==
  /\ pc = "loop"
  /\ At(pos) \notin {RBRACKET, LBRACE}
  /\ At(pos) = EOF => i < Len(input) + MaxEofReads
  /\ pos' = IF At(pos) = EOF THEN pos ELSE pos + 1
  /\ i' = i + 1
  /\ UNCHANGED <<call, scene, input, json, line, pc, status, err, cam, obj, objectArray>>

\* ':' and the whitespace around it, from the cursor k after a key
ValueOf(k) == skip_ws(expect_c(skip_ws(k), COLON))

\* Dispatch without the reset of the camera's flags: a flag is set when an
\* earlier camera gave the field
Dispatch_FlagsKept(v) ==
  IF v.err # ""
    THEN Exit1(v) /\ UNCHANGED <<cam, obj>>
  ELSE IF v.str = W_camera
    THEN /\ Goto(v, "camera")
         /\ cam' = [cam EXCEPT !.heightGiven = (cam.height # -1), !.widthGiven = (cam.width # -1)]
         /\ obj' = obj
  ELSE IF v.str = W_sphere
    THEN /\ Goto(v, "sphere")
         /\ obj' = NewSphere(v.str)
         /\ cam' = cam
  ELSE IF v.str = W_plane
    THEN /\ Goto(v, "plane")
         /\ \E g \in BOOLEAN : obj' = NewPlane(v.str, g)
         /\ cam' = cam
  ELSE IF v.str = W_light
    THEN /\ Goto(v, "light")
         /\ \E g \in BOOLEAN : obj' = NewPlane(v.str, g)
         /\ cam' = cam
  ELSE Exit1(Err(v, "unknown_type")) /\ UNCHANGED <<cam, obj>>

\* v is the cursor after the type's value: the branch on the value
Dispatch(v) ==
  IF v.err # ""
    THEN Exit1(v) /\ UNCHANGED <<cam, obj>>
  ELSE IF v.str = W_camera
    THEN /\ Goto(v, "camera")
         /\ cam' = [cam EXCEPT !.heightGiven = FALSE, !.widthGiven = FALSE]
         /\ obj' = obj
  ELSE IF v.str = W_sphere
    THEN /\ Goto(v, "sphere")
         /\ obj' = NewSphere(v.str)
         /\ cam' = cam
  ELSE IF v.str = W_plane
    THEN /\ Goto(v, "plane")
         /\ \E g \in BOOLEAN : obj' = NewPlane(v.str, g)
         /\ cam' = cam
  ELSE IF v.str = W_light
    THEN /\ Goto(v, "light")
         /\ \E g \in BOOLEAN : obj' = NewPlane(v.str, g)
         /\ cam' = cam
  ELSE Exit1(Err(v, "unknown_type")) /\ UNCHANGED <<cam, obj>>

\* k is the cursor after the first key of the object
Header(k) ==
  IF k.err # ""
    THEN Exit1(k) /\ UNCHANGED <<cam, obj>>
  ELSE IF k.str # W_type
    THEN Exit1(Err(k, "expected_type_key")) /\ UNCHANGED <<cam, obj>>
  ELSE Dispatch(next_string(ValueOf(k)))

\* the loop reads '{': the "type" key and its value
ObjectHeader ==
  /\ pc = "loop"
  /\ At(pos) = LBRACE
  /\ Header(next_string(skip_ws(Cursor(pos + 1, line))))
  /\ UNCHANGED <<call, scene, input, json, i, objectArray>>

\* a is the cursor after the skip_ws that follows an object: i = i + 1
NextIndex(a) ==
  /\ Continue(a, "loop")
  /\ i' = IF a.err # "" THEN i ELSE i + 1

\* the rest of the loop's body after an object
AfterObject(r) == NextIndex(skip_ws(r))

\* objectArray[i] = o and the rest of the loop's body.  With i at or beyond the
\* capacity the write lands outside the allocated block: the behaviour is
\* undefined, the write goes through unnoticed or the process is killed
StoreObject(o, r) ==
  \/ /\ objectArray' = Store(i, o)
     /\ AfterObject(r)
  \/ /\ i >= Capacity
     /\ Killed(r)
     /\ UNCHANGED <<i, objectArray>>

(***************************************************************************)
(* The field loops.  A field operator takes the key k, the cursor s at the *)
(* value, the object o and the garbage g, and gives the cursor and the     *)
(* object after the branch of the key, before the loop's skip_ws.          *)
(***************************************************************************)
Res(c, o) == [cur |-> c, obj |-> o]

Garbage3 == Garbage \X Garbage \X Garbage

\* n is the cursor after keyValue = next_number(json)
camera_width(n, o) ==
  IF n.err # "" THEN Res(n, o)
  ELSE IF lt(n.val, 1) THEN Res(Err(n, "camera_width_invalid"), o)
  ELSE Res(n, [o EXCEPT !.widthGiven = TRUE, !.width = n.val])

camera_height(n, o) ==
  IF n.err # "" THEN Res(n, o)
  ELSE IF lt(n.val, 1) THEN Res(Err(n, "camera_height_invalid"), o)
  ELSE Res(n, [o EXCEPT !.heightGiven = TRUE, !.height = n.val])

camera_field(k, s, o, g) ==
  IF k = W_width THEN
    IF o.widthGiven THEN Res(Err(s, "camera_width_given"), o)
    ELSE camera_width(next_number(s, g[1]), o)
  ELSE IF k = W_height THEN
    IF o.heightGiven THEN Res(Err(s, "camera_height_given"), o)
    ELSE camera_height(next_number(s, g[1]), o)
  ELSE Res(s, o)

\* v is the cursor after keyValue = next_vector(json)
sphere_color(v, o) ==
  IF v.err # "" THEN Res(v, o)
  ELSE IF ColorInvalid(v.val) THEN Res(Err(v, "sphere_color_invalid"), o)
  ELSE Res(v, [o EXCEPT !.colorGiven = TRUE, !.color = v.val])

sphere_radius(n, o) ==
  IF n.err # "" THEN Res(n, o)
  ELSE IF lt(n.val, 1) THEN Res(Err(n, "sphere_radius_invalid"), o)
  ELSE Res(n, [o EXCEPT !.radiusGiven = TRUE, !.radius = n.val])

\* the position of a sphere, a plane or a light
set_position(v, o) ==
  IF v.err # "" THEN Res(v, o)
  ELSE Res(v, [o EXCEPT !.positionGiven = TRUE, !.position = v.val])

\* the normal of a plane or a light
set_normal(v, o) ==
  IF v.err # "" THEN Res(v, o)
  ELSE Res(v, [o EXCEPT !.normalGiven = TRUE, !.normal = v.val])

sphere_field(k, s, o, g) ==
  IF k = W_color THEN
    IF o.colorGiven THEN Res(Err(s, "sphere_color_given"), o)
    ELSE sphere_color(next_vector(s, g), o)
  ELSE IF k = W_radius THEN
    IF o.radiusGiven THEN Res(Err(s, "sphere_radius_given"), o)
    ELSE sphere_radius(next_number(s, g[1]), o)
  ELSE IF k = W_position THEN
    IF o.positionGiven THEN Res(Err(s, "sphere_position_given"), o)
    ELSE set_position(next_vector(s, g), o)
  ELSE Res(s, o)

\* the colour is checked and then dropped: neither color nor colorGiven is set
plane_color(v, o) ==
  IF v.err # "" THEN Res(v, o)
  ELSE IF ColorInvalid(v.val) THEN Res(Err(v, "plane_color_invalid"), o)
  ELSE Res(v, o)

\* the key of the normal is the empty string
plane_field(k, s, o, g) ==
  IF k = W_color THEN
    IF o.colorGiven THEN Res(Err(s, "plane_color_given"), o)
    ELSE plane_color(next_vector(s, g), o)
  ELSE IF k = W_empty THEN
    IF o.normalGiven THEN Res(Err(s, "plane_normal_given"), o)
    ELSE set_normal(next_vector(s, g), o)
  ELSE IF k = W_position THEN
    IF o.positionGiven THEN Res(Err(s, "plane_position_given"), o)
    ELSE set_position(next_vector(s, g), o)
  ELSE Res(s, o)

light_color(v, o) ==
  IF v.err # "" THEN Res(v, o)
  ELSE IF ColorInvalid(v.val) THEN Res(Err(v, "light_color_invalid"), o)
  ELSE Res(v, [o EXCEPT !.colorGiven = TRUE, !.color = v.val])

light_field(k, s, o, g) ==
  IF k = W_color THEN
    IF o.colorGiven THEN Res(Err(s, "light_color_given"), o)
    ELSE light_color(next_vector(s, g), o)
  ELSE IF k = W_normal THEN
    IF o.normalGiven THEN Res(Err(s, "light_normal_given"), o)
    ELSE set_normal(next_vector(s, g), o)
  ELSE IF k = W_position THEN
    IF o.positionGiven THEN Res(Err(s, "light_position_given"), o)
    ELSE set_position(next_vector(s, g), o)
  ELSE Res(s, o)

\* the branch on the key k in the loop at label l, s being the cursor at the value
field_at(l, k, s, o, g) ==
  IF s.err # "" THEN Res(s, o)
  ELSE IF l = "camera" THEN camera_field(k.str, s, o, g)
  ELSE IF l = "sphere" THEN sphere_field(k.str, s, o, g)
  ELSE IF l = "plane" THEN plane_field(k.str, s, o, g)
  ELSE light_field(k.str, s, o, g)

\* "read another field": r is the cursor after ',', k the cursor after the key
field_of(l, k, o, g) == field_at(l, k, ValueOf(k), o, g)
read_field(l, r, o, g) == field_of(l, next_string(skip_ws(r)), o, g)

\* the skip_ws that ends the loop's body
FieldDone(l, c) == Continue(skip_ws(c), l)

\* the loops' c = next_c(json)
Char == next_c(Here)
IsChar(r, c) == r.err = "" /\ r.c = c

CameraFieldRead(res) ==
  /\ cam' = res.obj
  /\ FieldDone("camera", res.cur)

CameraField ==
  /\ pc = "camera"
  /\ IsChar(Char, COMMA)
  /\ \E g \in Garbage3 : CameraFieldRead(read_field("camera", Char, cam, g))
  /\ UNCHANGED <<call, scene, input, json, i, obj, objectArray>>

CameraEnd ==
  /\ pc = "camera"
  /\ IsChar(Char, RBRACE)
  /\ IF (~cam.heightGiven) \/ (~cam.widthGiven)
       THEN /\ Exit1(Err(Char, "camera_not_given"))
            /\ UNCHANGED <<i, objectArray>>
       ELSE StoreObject(cam, Char)
  /\ UNCHANGED <<call, scene, input, json, cam, obj>>

\* any other character, or the end of the file
CameraOther ==
  /\ pc = "camera"
  /\ ~IsChar(Char, COMMA)
  /\ ~IsChar(Char, RBRACE)
  /\ Exit1(IF Char.err # "" THEN Char ELSE Err(Char, "unknown_property"))
  /\ UNCHANGED <<call, scene, input, json, i, cam, obj, objectArray>>

ObjectFieldRead(l, res) ==
  /\ obj' = res.obj
  /\ FieldDone(l, res.cur)

\* ',' in the loop of a sphere, a plane or a light
ObjectField(l) ==
  /\ IsChar(Char, COMMA)
  /\ \E g \in Garbage3 : ObjectFieldRead(l, read_field(l, Char, obj, g))
  /\ UNCHANGED <<call, scene, input, json, i, cam, objectArray>>

\* a character that is neither '}' nor ',' in the loop of a sphere, a plane or
\* a light: nothing is done with it; the end of the file ends the process
ObjectOther(l) ==
  /\ ~IsChar(Char, COMMA)
  /\ ~IsChar(Char, RBRACE)
  /\ Continue(Char, l)
  /\ UNCHANGED <<call, scene, input, json, i, cam, obj, objectArray>>

SphereField ==
  /\ pc = "sphere"
  /\ ObjectField("sphere")

SphereEnd ==
  /\ pc = "sphere"
  /\ IsChar(Char, RBRACE)
  /\ IF (~obj.positionGiven) \/ (~obj.colorGiven) \/ (~obj.radiusGiven)
       THEN /\ Exit1(Err(Char, "sphere_not_given"))
            /\ UNCHANGED <<i, objectArray>>
       ELSE StoreObject(obj, Char)
  /\ UNCHANGED <<call, scene, input, json, cam, obj>>

SphereOther ==
  /\ pc = "sphere"
  /\ ObjectOther("sphere")

PlaneField ==
  /\ pc = "plane"
  /\ ObjectField("plane")

PlaneEnd ==
  /\ pc = "plane"
  /\ IsChar(Char, RBRACE)
  /\ IF (~obj.positionGiven) \/ (~obj.colorGiven) \/ (~obj.normalGiven)
       THEN /\ Exit1(Err(Char, "plane_not_given"))
            /\ UNCHANGED <<i, objectArray>>
       ELSE StoreObject(obj, Char)
  /\ UNCHANGED <<call, scene, input, json, cam, obj>>

PlaneOther ==
  /\ pc = "plane"
  /\ ObjectOther("plane")

LightField ==
  /\ pc = "light"
  /\ ObjectField("light")

\* the light is validated nowhere and stored nowhere
LightEnd ==
  /\ pc = "light"
  /\ IsChar(Char, RBRACE)
  /\ AfterObject(Char)
  /\ UNCHANGED <<call, scene, input, json, cam, obj, objectArray>>

LightOther ==
  /\ pc = "light"
  /\ ObjectOther("light")

Next ==
  \/ OpenFails
  \/ Open
  \/ ArrayClose
  \/ SkipChar
  \/ ObjectHeader
  \/ CameraField
  \/ CameraEnd
  \/ CameraOther
  \/ SphereField
  \/ SphereEnd
  \/ SphereOther
  \/ PlaneField
  \/ PlaneEnd
  \/ PlaneOther
  \/ LightField
  \/ LightEnd
  \/ LightOther

Spec == Init /\ [][Next]_vars

(***************************************************************************)
(* What the file says, for the statements below.                           *)
(***************************************************************************)
\* the file is the whole text of its scene
Whole == scene.exists /\ scene.cut = Len(Render(scene.objs, scene.ws))

\* the run read the file to its last byte
ReadToEnd == pos = Len(input) + 1

NObjects == Len(scene.objs)

\* the fields of an object whose key is k
FieldsOf(o, k) == {j \in DOMAIN o.fields : o.fields[j].key = k}
Gives(o, k) == FieldsOf(o, k) # {}
GivesTwice(o, k) == Cardinality(FieldsOf(o, k)) >= 2

\* the tables of section 4.2 and 6: the keys a kind knows and the keys it needs
KnownKeys(t) ==
  IF t = W_camera THEN {W_width, W_height}
  ELSE IF t = W_sphere THEN {W_color, W_position, W_radius}
  ELSE IF t = W_plane THEN {W_color, W_position, W_normal}
  ELSE IF t = W_light THEN {W_color, W_position, W_normal}
  ELSE {}

NeededKeys(t) ==
  IF t = W_camera THEN {W_width, W_height}
  ELSE IF t = W_sphere THEN {W_color, W_position, W_radius}
  ELSE IF t = W_plane THEN {W_color, W_position, W_normal}
  ELSE {}

\* the keys of an object that Holds reads: a light is to give color and position
HeldKeys(t) == IF t = W_light THEN {W_color, W_position} ELSE NeededKeys(t)

GoodHeader(o) == o.hdr = W_type /\ o.type \in Kinds

InRange(v) == Len(v) = 3 /\ \A n \in 1..3 : v[n] >= 0 /\ v[n] <= 255 /\ v[n] # NaN

GoodValue(f) ==
  IF f.key \in {W_width, W_height, W_radius}
    THEN Len(f.val) = 1 /\ f.val[1] >= 1 /\ f.val[1] # NaN
  ELSE IF f.key = W_color THEN InRange(f.val)
  ELSE Len(f.val) = 3

HasDuplicate(o) == \E k \in KnownKeys(o.type) : GivesTwice(o, k)
HasMissing(o) == \E k \in NeededKeys(o.type) : ~Gives(o, k)
HasUnknown(o) == \E j \in DOMAIN o.fields : o.fields[j].key \notin KnownKeys(o.type)
HasBadColor(o) == \E j \in FieldsOf(o, W_color) : Len(o.fields[j].val) = 3 /\ ~InRange(o.fields[j].val)

WellFormedObject(o) ==
  /\ GoodHeader(o)
  /\ ~HasDuplicate(o)
  /\ ~HasMissing(o)
  /\ \A k \in HeldKeys(o.type) : Gives(o, k)
  /\ ~HasUnknown(o)
  /\ \A j \in DOMAIN o.fields : GoodValue(o.fields[j])

WellFormedScene ==
  /\ Whole
  /\ NObjects >= 1
  /\ \A k \in 1..NObjects : WellFormedObject(scene.objs[k])

\* where the k-th object of the file begins ('{') and ends ('}')
RECURSIVE ObjStart(_)
ObjStart(k) ==
  IF k = 1 THEN 2 * Len(scene.ws) + 2
  ELSE ObjStart(k - 1) + Len(RenderObject(scene.objs[k - 1], scene.ws)) + 1 + Len(scene.ws)

ObjEnd(k) == ObjStart(k) + Len(RenderObject(scene.objs[k], scene.ws)) - 1

\* the objects of the file the cursor is in or right after
Current == {k \in 1..NObjects : ObjStart(k) < pos /\ pos <= ObjEnd(k) + 1}

\* the value of the field of o whose key is k, when o gives it once
ValueIn(o, k) == o.fields[CHOOSE j \in FieldsOf(o, k) : TRUE].val

\* a stored object holds what the object o of the file says
Holds(x, o) ==
  IF o.type = W_camera
    THEN /\ x.member = "camera"
         /\ x.width = ValueIn(o, W_width)[1]
         /\ x.height = ValueIn(o, W_height)[1]
  ELSE IF o.type = W_sphere
    THEN /\ x.member = "sphere"
         /\ x.type = W_sphere
         /\ x.color = ValueIn(o, W_color)
         /\ x.position = ValueIn(o, W_position)
         /\ x.radius = ValueIn(o, W_radius)[1]
  ELSE /\ x.member = "plane"
       /\ x.type = o.type
       /\ x.color = ValueIn(o, W_color)
       /\ x.position = ValueIn(o, W_position)

(***************************************************************************)
(* C1.  For a well-formed scene of n >= 1 objects, when read_scene has     *)
(* read the ']' that closes the array, the scene array holds exactly n     *)
(* objects, in slots 0 .. n-1, in the order of the file.                   *)
(***************************************************************************)
C1_ArrayHoldsTheObjects ==
  (WellFormedScene /\ status = "exit0" /\ ReadToEnd) =>
    /\ DOMAIN objectArray = 0..(NObjects - 1)
    /\ \A k \in 1..NObjects : Holds(objectArray[k - 1], scene.objs[k])

(***************************************************************************)
(* C2.  read_scene ends with exit status 0 only by reading the ']' that    *)
(* closes the top-level array, right after a complete object; a ']'        *)
(* anywhere else in the input never ends the parse with success.           *)
(***************************************************************************)
C2_SuccessOnlyAtArrayClose ==
  status = "exit0" => (Whole /\ NObjects >= 1 /\ ReadToEnd)

(***************************************************************************)
(* C3.  A read that finds the stream exhausted ends the parse with the     *)
(* fatal unexpected-end-of-input error, the top-level read between objects *)
(* included: a step taken at the loop with no byte left exits with it.     *)
(***************************************************************************)
C3_EndOfInputIsFatal ==
  [][(status = "running" /\ pc = "loop" /\ At(pos) = EOF)
       => (status' = "exit1" /\ err' = "eof")]_vars

(***************************************************************************)
(* C4.  An object that gives a recognized field of its kind twice (camera  *)
(* width, height; sphere color, position, radius; plane color, position,   *)
(* normal) is a fatal error: no run that read such a file to its end ends  *)
(* with success.                                                           *)
(***************************************************************************)
C4_DuplicateFieldIsFatal ==
  (status = "exit0" /\ Whole /\ ReadToEnd) =>
    \A k \in 1..NObjects :
      scene.objs[k].type \in {W_camera, W_sphere, W_plane} => ~HasDuplicate(scene.objs[k])

(***************************************************************************)
(* C5.  A camera, sphere or plane that reaches its '}' without a required  *)
(* field is a fatal error and is never stored: no run that read such a     *)
(* file to its end ends with success, and every stored object was given    *)
(* every required field by the object of the file it was read from.        *)
(***************************************************************************)
C5_MissingFieldIsFatal ==
  /\ (status = "exit0" /\ Whole /\ ReadToEnd) =>
       \A k \in 1..NObjects : ~HasMissing(scene.objs[k])
  /\ (pc = "loop" /\ (i - 1) \in DOMAIN objectArray) =>
       \A k \in Current : ~HasMissing(scene.objs[k])

(***************************************************************************)
(* C6.  A plane that gives color (channels in 0..255), position and normal *)
(* once each passes the required-field validation and is stored: no run on *)
(* a whole file ends with a fatal error while the cursor is in such a      *)
(* plane.                                                                  *)
(***************************************************************************)
C6_CompletePlaneIsStored ==
  (Whole /\ pc = "exit" /\ status = "exit1") =>
    \A k \in Current : ~(scene.objs[k].type = W_plane /\ WellFormedObject(scene.objs[k]))

UnknownKeyRead ==
  /\ pc \in {"camera", "sphere", "plane"}
  /\ IsChar(Char, COMMA)
  /\ ValueOf(next_string(skip_ws(Char))).err = ""
  /\ next_string(skip_ws(Char)).str \notin
       KnownKeys(IF pc = "camera" THEN W_camera ELSE IF pc = "sphere" THEN W_sphere ELSE W_plane)

(***************************************************************************)
(* C7.  In a camera, sphere or plane, a key that is not in the table of    *)
(* the kind is a fatal error: the step that reads such a key ends the      *)
(* process with exit(1).                                                   *)
(***************************************************************************)
C7_UnknownKeyIsFatal ==
  [][UnknownKeyRead => status' = "exit1"]_vars

(***************************************************************************)
(* C8.  Every object of the array, the first included, is validated by its *)
(* header: a file with an object whose first key is not "type", or whose   *)
(* type is none of camera, sphere, plane, light, never ends with success.  *)
(***************************************************************************)
C8_HeaderIsValidated ==
  status = "exit0" => \A k \in 1..NObjects : GoodHeader(scene.objs[k])

EmptyScene == Whole /\ NObjects = 0

(***************************************************************************)
(* C9.  For a file that is optional whitespace, '[', optional whitespace,  *)
(* ']', read_scene never enters the loop and stores nothing, and it ends   *)
(* with the empty-scene error, exit status 1, the file closed.             *)
(***************************************************************************)
C9_EmptySceneIsRejected ==
  EmptyScene =>
    /\ pc \in {"open", "exit"}
    /\ objectArray = <<>>
    /\ pc = "exit" => (status = "exit1" /\ err = "empty_scene" /\ json = "closed")

C9_Witness == EmptyScene /\ pc = "exit" /\ scene.ws # <<>>

ColorErrors == {"sphere_color_invalid", "plane_color_invalid", "light_color_invalid"}

(***************************************************************************)
(* C10.  A file in which a sphere, plane or light gives a color with a     *)
(* channel below 0 or above 255 never ends with success, and the colour    *)
(* check does not fail on a color whose channels all lie in 0..255.        *)
(***************************************************************************)
C10_ColorRange ==
  /\ status = "exit0" =>
       \A k \in 1..NObjects :
         scene.objs[k].type \in {W_sphere, W_plane, W_light} => ~HasBadColor(scene.objs[k])
  /\ (pc = "exit" /\ err \in ColorErrors) =>
       \E k \in Current : HasBadColor(scene.objs[k])

(***************************************************************************)
(* C11.  On every path by which read_scene ends after the file was opened, *)
(* success and every fatal error alike, the stream handle has been closed  *)
(* before the process terminates.                                          *)
(***************************************************************************)
C11_StreamClosedAtExit ==
  (pc = "exit" /\ json # "none") => json = "closed"

(***************************************************************************)
(* C12.  Every write of an object into the scene array uses an index i     *)
(* with 0 <= i < 1000, the allocated capacity: no slot at or beyond the    *)
(* capacity is ever written, and no run is ended by a write outside the    *)
(* array.                                                                  *)
(***************************************************************************)
C12_WritesWithinCapacity ==
  /\ \A k \in DOMAIN objectArray : k >= 0 /\ k < Capacity
  /\ status # "killed"

(***************************************************************************)
(* The intersection functions, called on their own.                        *)
(*                                                                         *)
(* The arguments are doubles with integer values.  A sum or a product of   *)
(* them is [v, nz]: v is its value and nz says that it is the negative     *)
(* zero, which a product of a zero and a negative number is.  A quotient   *)
(* is a fraction [n, d] with d >= 0: d = 0 stands for what the division by *)
(* a zero gives, +infinity (n = 1), -infinity (n = -1) or a NaN (n = 0).   *)
(***************************************************************************)
Fl(x) == [v |-> x, nz |-> FALSE]

\* the sign bit of a double
Neg(x) == x.v < 0 \/ x.nz

fmul(x, y) == [v |-> x.v * y.v, nz |-> (x.v * y.v = 0) /\ (Neg(x) # Neg(y))]
fadd(x, y) == [v |-> x.v + y.v, nz |-> x.nz /\ y.nz]
fsub(x, y) == [v |-> x.v - y.v, nz |-> x.nz /\ y.v = 0 /\ ~y.nz]

Sign(n) == IF n > 0 THEN 1 ELSE IF n < 0 THEN -1 ELSE 0

\* x / y
fdiv(x, y) ==
  IF y.v > 0 THEN [n |-> x.v, d |-> y.v]
  ELSE IF y.v < 0 THEN [n |-> 0 - x.v, d |-> 0 - y.v]
  ELSE [n |-> IF y.nz THEN 0 - Sign(x.v) ELSE Sign(x.v), d |-> 0]

\* t < 0: a comparison with a NaN is false
lt0(t) == t.n < 0

\* the double -1
MinusOne == [n |-> -1, d |-> 1]

\* (x[0]*y[0]) + (x[1]*y[1]) + (x[2]*y[2])
dot3(x, y) == fadd(fadd(fmul(x[1], y[1]), fmul(x[2], y[2])), fmul(x[3], y[3]))

\* the loop of lines 591-593
b_of(position, origin) == [j \in 1..3 |-> fsub(position[j], origin[j])]

\* plane_intersection after a and d
plane_t(t) == IF lt0(t) THEN MinusOne ELSE t

plane_intersection(origin, direction, position, normal) ==
  plane_t(fdiv(dot3(b_of(position, origin), normal), dot3(normal, direction)))

Vec(a, b, c) == <<Fl(a), Fl(b), Fl(c)>>

Directions ==
  {Vec(a, b, c) : a \in {-1, 0, 1}, b \in {-1, 0, 1}, c \in {-1, 0, 1}} \ {Vec(0, 0, 0)}
Normals == {Vec(0, 0, 1), Vec(0, 1, 0), Vec(0, -1, 0), Vec(1, 0, 1)}
Points == {Vec(0, 0, 0), Vec(0, 0, -10), Vec(0, 2, 0), Vec(0, -2, 1)}

PlaneCalls ==
  {[fn |-> "plane_intersection", origin |-> o, direction |-> d, position |-> p,
    normal |-> n, done |-> FALSE, ret |-> MinusOne] :
     o \in Points, d \in Directions, p \in Points, n \in Normals}

\* the state of read_scene while a function is called on its own
Idle ==
  /\ scene = NoFile
  /\ json = "none"
  /\ pos = 1
  /\ line = 1
  /\ pc = "idle"
  /\ status = "running"
  /\ err = ""
  /\ i = 0
  /\ cam = NoObject
  /\ obj = NoObject
  /\ objectArray = <<>>

PlaneIntersection ==
  /\ call.fn = "plane_intersection"
  /\ ~call.done
  /\ call' = [call EXCEPT !.done = TRUE,
                !.ret = plane_intersection(call.origin, call.direction, call.position,
                                           call.normal)]
  /\ UNCHANGED <<scene, input, json, pos, line, pc, status, err, i, cam, obj, objectArray>>

(***************************************************************************)
(* sphere_intersection.  a, b, c and the discriminant are integers.  A     *)
(* root is [p, s, q, d], the number (p + s * sqrt(q)) / d with d > 0, and  *)
(* the tests t0 > 0 and t1 > 0 are decided on p, s and q: with integers    *)
(* this small sqrt(q) is further from -b than the rounding of a double can *)
(* bridge unless q is the square of b, where the sqrt is exact.            *)
(***************************************************************************)
sqr(v) == v * v

Root(p, s, q, d) == [p |-> p, s |-> s, q |-> q, d |-> d]

\* the double -1 as sphere_intersection returns it
NoHit == Root(-1, 1, 0, 1)

\* (p + s * sqrt(q)) > 0
RootPositive(r) ==
  IF r.s = 1 THEN r.p > 0 \/ sqr(r.p) < r.q
  ELSE r.p > 0 /\ sqr(r.p) > r.q

\* sphere_roots with the test of t1 before the test of t0
sphere_roots_t1_first(a, b, det) ==
  IF RootPositive(Root(0 - b, 1, det, 2 * a)) THEN Root(0 - b, 1, det, 2 * a)
  ELSE IF RootPositive(Root(0 - b, -1, det, 2 * a)) THEN Root(0 - b, -1, det, 2 * a)
  ELSE NoHit

\* sphere_intersection from det = sqrt(det) on
sphere_roots(a, b, det) ==
  IF RootPositive(Root(0 - b, -1, det, 2 * a)) THEN Root(0 - b, -1, det, 2 * a)
  ELSE IF RootPositive(Root(0 - b, 1, det, 2 * a)) THEN Root(0 - b, 1, det, 2 * a)
  ELSE NoHit

\* sphere_intersection from the test of det on
sphere_det(a, b, det) == IF det < 0 THEN NoHit ELSE sphere_roots(a, b, det)

sphere_abc(a, b, c) == sphere_det(a, b, sqr(b) - 4 * a * c)

sphere_intersection(origin, direction, offset, radius) ==
  sphere_abc(
    sqr(direction[1].v) + sqr(direction[2].v) + sqr(direction[3].v),
    2 * (direction[1].v * (origin[1].v - offset[1].v)
           + direction[2].v * (origin[2].v - offset[2].v)
           + direction[3].v * (origin[3].v - offset[3].v)),
    sqr(origin[1].v - offset[1].v) + sqr(origin[2].v - offset[2].v)
      + sqr(origin[3].v - offset[3].v) - sqr(radius))

Centers == {Vec(0, 0, -5), Vec(0, 0, 0), Vec(1, 1, 0), Vec(0, 2, 2)}
Radii == {1, 2, 3}

SphereCalls ==
  {[fn |-> "sphere_intersection", origin |-> o, direction |-> d, offset |-> c,
    radius |-> r, done |-> FALSE, ret |-> NoHit] :
     o \in Points, d \in Directions, c \in Centers, r \in Radii}

SphereIntersection ==
  /\ call.fn = "sphere_intersection"
  /\ ~call.done
  /\ call' = [call EXCEPT !.done = TRUE,
                !.ret = sphere_intersection(call.origin, call.direction, call.offset,
                                            call.radius)]
  /\ UNCHANGED <<scene, input, json, pos, line, pc, status, err, i, cam, obj, objectArray>>

InitGeometry ==
  /\ Idle
  /\ input = <<>>
  /\ call \in PlaneCalls \cup SphereCalls

NextGeometry ==
  \/ PlaneIntersection
  \/ SphereIntersection

SpecGeometry == InitGeometry /\ [][NextGeometry]_vars

\* the ray of a call is parallel to the plane
Parallel == dot3(call.normal, call.direction).v = 0

(***************************************************************************)
(* C13.  plane_intersection called with a ray parallel to the plane        *)
(* (dot(normal, direction) = 0) returns -1, "no intersection", for every   *)
(* origin and plane position, the origin in the plane included; it never   *)
(* returns an infinite value or a NaN.                                     *)
(***************************************************************************)
C13_ParallelRayMisses ==
  (call.fn = "plane_intersection" /\ call.done /\ Parallel) => call.ret = MinusOne

\* the quadratic of a call of sphere_intersection, from its arguments
Diff(x, y) == [j \in 1..3 |-> x[j].v - y[j].v]
IDot(x, y) == x[1] * y[1] + x[2] * y[2] + x[3] * y[3]
Dir == Diff(call.direction, Vec(0, 0, 0))
Rel == Diff(call.origin, call.offset)
QA == IDot(Dir, Dir)
QB == 2 * IDot(Dir, Rel)
QC == IDot(Rel, Rel) - sqr(call.radius)
Disc == sqr(QB) - 4 * QA * QC
T0 == Root(0 - QB, -1, Disc, 2 * QA)
T1 == Root(0 - QB, 1, Disc, 2 * QA)

\* the point origin + t * direction lies on the sphere: its offset from the
\* centre, times t.d, is U + W * sqrt(t.q), and the square of that is
\* IDot(U, U) + t.q * IDot(W, W) + 2 * IDot(U, W) * sqrt(t.q)
HitU(t) == [j \in 1..3 |-> Rel[j] * t.d + t.p * Dir[j]]
HitW(t) == [j \in 1..3 |-> t.s * Dir[j]]
OnSphere(t) ==
  /\ IDot(HitU(t), HitW(t)) = 0
  /\ IDot(HitU(t), HitU(t)) + t.q * IDot(HitW(t), HitW(t)) = sqr(call.radius) * sqr(t.d)

(***************************************************************************)
(* C14.  sphere_intersection, for a ray with non-zero direction, returns   *)
(* -1, "no intersection", exactly when the discriminant b^2 - 4ac is       *)
(* negative or neither root is strictly positive, and otherwise returns    *)
(* the smallest strictly positive root: t0 = (-b - sqrt(disc)) / 2a when   *)
(* t0 > 0, else t1 = (-b + sqrt(disc)) / 2a.  The value returned is the    *)
(* distance of a point of the sphere.                                      *)
(***************************************************************************)
C14_SphereNearestPositiveRoot ==
  (call.fn = "sphere_intersection" /\ call.done /\ QA # 0) =>
    /\ call.ret = NoHit <=> (Disc < 0 \/ (~RootPositive(T0) /\ ~RootPositive(T1)))
    /\ call.ret # NoHit =>
         /\ call.ret = IF RootPositive(T0) THEN T0 ELSE T1
         /\ RootPositive(call.ret)
         /\ OnSphere(call.ret)

\* origin (0,0,0), direction (0,0,-1), centre (0,0,-5), radius 1: t = (10 - sqrt(4)) / 2 = 4
C14_Witness ==
  /\ call.fn = "sphere_intersection"
  /\ call.done
  /\ call.origin = Vec(0, 0, 0)
  /\ call.direction = Vec(0, 0, -1)
  /\ call.offset = Vec(0, 0, -5)
  /\ call.radius = 1
  /\ call.ret = Root(10, -1, 4, 2)

\* the loop of an object reads the '}' that ends it
ObjectEnds ==
  /\ status = "running"
  /\ pc \in {"camera", "sphere", "plane", "light"}
  /\ IsChar(Char, RBRACE)

(***************************************************************************)
(* C15.  Every object whose field loop ends at its closing '}' without a   *)
(* fatal error, be it a camera, a sphere, a plane or a light, is written   *)
(* to the scene array at the current index before that index advances: no  *)
(* successfully parsed object is dropped.                                  *)
(***************************************************************************)
C15_ParsedObjectIsStored ==
  [][(ObjectEnds /\ status' = "running")
       => (i \in DOMAIN objectArray' /\ objectArray'[i] = IF pc = "camera" THEN cam ELSE obj)]_vars

\* a double that is a number and at least 1
AtLeastOne(x) == x # NaN /\ x >= 1

(***************************************************************************)
(* C16.  In every reachable state, every camera stored in the scene array  *)
(* has width >= 1 and height >= 1 with both presence flags true (the -1 of *)
(* the construction is never seen in a stored camera), and every sphere    *)
(* stored in the scene array has radius >= 1.                              *)
(***************************************************************************)
C16_StoredSizesArePositive ==
  \A k \in DOMAIN objectArray :
    /\ objectArray[k].member = "camera" =>
         /\ objectArray[k].widthGiven = TRUE
         /\ objectArray[k].heightGiven = TRUE
         /\ AtLeastOne(objectArray[k].width)
         /\ AtLeastOne(objectArray[k].height)
    /\ objectArray[k].member = "sphere" =>
         /\ objectArray[k].radiusGiven = TRUE
         /\ AtLeastOne(objectArray[k].radius)

\* the camera loop reads '}' and the camera is stored
CameraStored ==
  /\ status = "running"
  /\ pc = "camera"
  /\ IsChar(Char, RBRACE)
  /\ status' = "running"

\* the camera x holds the number the object o gives for the key k
HoldsNumber(x, o, k) ==
  /\ Gives(o, k)
  /\ ~GivesTwice(o, k)
  /\ Len(ValueIn(o, k)) = 1 => x = ValueIn(o, k)[1]

(***************************************************************************)
(* C17.  When several camera objects are parsed in one input, the camera   *)
(* slot after each of them holds exactly the width and height given in     *)
(* that object, the last one parsed wins: a width or height given by an    *)
(* earlier camera neither satisfies the required-field check of a later    *)
(* camera nor triggers its duplicate-field check.                          *)
(***************************************************************************)
C17_LastCameraWins ==
  /\ [][CameraStored =>
          /\ cam' = cam
          /\ objectArray'[i] = cam
          /\ \A k \in Current :
               /\ HoldsNumber(cam.width, scene.objs[k], W_width)
               /\ HoldsNumber(cam.height, scene.objs[k], W_height)]_vars
  /\ []((pc = "exit" /\ err \in {"camera_width_given", "camera_height_given"})
          => \E k \in Current : HasDuplicate(scene.objs[k]))

\* a camera of width 1 and a later camera of width 2 were parsed and stored
C17_Witness ==
  /\ cam.member = "camera"
  /\ cam.width = 2
  /\ cam.height = 3
  /\ \E a \in DOMAIN objectArray, b \in DOMAIN objectArray :
       /\ a < b
       /\ objectArray[a].member = "camera"
       /\ objectArray[a].width = 1
       /\ objectArray[b] = cam

(***************************************************************************)
(* next_string and next_vector, called on their own on the bytes of input. *)
(* next_string is followed statement by statement: call holds the          *)
(* character c, the index i and the cells of buffer written so far.        *)
(***************************************************************************)
\* the j-th character of a text: printable, neither '"' nor '\'
Ch(j) ==
  IF (SP + ((7 * j) % 95)) \in {QUOTE, BACKSLASH} THEN SP + 1 + ((7 * j) % 95)
  ELSE SP + ((7 * j) % 95)

\* quoted texts of about the length the buffer holds, and of a few characters
StringTexts ==
  {[j \in 1..k |-> Ch(j + d)] :
     k \in {0, 1, 2, MaxString - 1, MaxString, MaxString + 1, MaxString + 2}, d \in {0, 1}}

StringCall(t, q) ==
  [fn |-> "next_string", text |-> t, quoted |-> q, stage |-> "start", c |-> EOF, i |-> 0,
   buffer |-> <<>>, ret |-> <<>>]

\* exit(1) in a function called on its own
LexExit(r) ==
  /\ pos' = r.pos
  /\ line' = r.line
  /\ status' = "exit1"
  /\ err' = r.err

\* r is the cursor after a c = next_c(json) that enters or re-enters the loop,
\* k the value of i and b the buffer
StringLoop(r, k, b) ==
  IF r.err # ""
    THEN /\ LexExit(r)
         /\ call' = [call EXCEPT !.stage = "exit", !.buffer = b]
  ELSE /\ pos' = r.pos
       /\ line' = r.line
       /\ call' = [call EXCEPT !.stage = "loop", !.c = r.c, !.i = k, !.buffer = b]
       /\ UNCHANGED <<status, err>>

\* lines 100-108
StringStart ==
  /\ call.fn = "next_string"
  /\ call.stage = "start"
  /\ IF next_c(Here).err # "" \/ next_c(Here).c # QUOTE
       THEN /\ LexExit(string_open(next_c(Here)))
            /\ call' = [call EXCEPT !.stage = "exit"]
       ELSE StringLoop(next_c(next_c(Here)), 0, call.buffer)
  /\ UNCHANGED <<scene, input, json, pc, i, cam, obj, objectArray>>

\* StringChar with the length test one character late
StringChar_OneLate ==
  /\ call.fn = "next_string"
  /\ call.stage = "loop"
  /\ call.c # QUOTE
  /\ IF call.i > MaxString \/ call.c = BACKSLASH \/ call.c < 32 \/ call.c > 126
       THEN /\ LexExit(Err(Here, IF call.i > MaxString THEN "string_too_long"
                                  ELSE IF call.c = BACKSLASH THEN "string_escape"
                                  ELSE "string_ascii"))
            /\ call' = [call EXCEPT !.stage = "exit"]
       ELSE StringLoop(next_c(Here), call.i + 1, (call.i :> call.c) @@ call.buffer)
  /\ UNCHANGED <<scene, input, json, pc, i, cam, obj, objectArray>>

\* one turn of the loop, lines 110-126
StringChar ==
  /\ call.fn = "next_string"
  /\ call.stage = "loop"
  /\ call.c # QUOTE
  /\ IF call.i >= MaxString \/ call.c = BACKSLASH \/ call.c < 32 \/ call.c > 126
       THEN /\ LexExit(Err(Here, IF call.i >= MaxString THEN "string_too_long"
                                  ELSE IF call.c = BACKSLASH THEN "string_escape"
                                  ELSE "string_ascii"))
            /\ call' = [call EXCEPT !.stage = "exit"]
       ELSE StringLoop(next_c(Here), call.i + 1, (call.i :> call.c) @@ call.buffer)
  /\ UNCHANGED <<scene, input, json, pc, i, cam, obj, objectArray>>

\* lines 128-129: the terminating zero and the copy of the text before it
StringEnd ==
  /\ call.fn = "next_string"
  /\ call.stage = "loop"
  /\ call.c = QUOTE
  /\ call' = [call EXCEPT !.stage = "done", !.buffer = (call.i :> 0) @@ call.buffer,
                !.ret = [j \in 1..call.i |-> call.buffer[j - 1]]]
  /\ UNCHANGED <<scene, input, json, pos, line, pc, status, err, i, cam, obj, objectArray>>

\* the text of a vector: '[' or nothing, three numbers or nothing in their
\* places, two separators, ']' or nothing, whitespace of one style around the
\* tokens, and the '}' of the object after it
VectorText(d) ==
  (IF d.open THEN <<LBRACKET>> ELSE <<>>) \o d.ws
    \o RenderValue(d.nums[1]) \o d.ws \o <<d.seps[1]>> \o d.ws
    \o RenderValue(d.nums[2]) \o d.ws \o <<d.seps[2]>> \o d.ws
    \o RenderValue(d.nums[3]) \o d.ws
    \o (IF d.close THEN <<RBRACKET>> ELSE <<>>) \o <<RBRACE>>

VectorDescs ==
  {[open |-> o, nums |-> <<a, b, c>>, seps |-> <<s, t>>, close |-> e, ws |-> w] :
     o \in BOOLEAN, a \in {<<1>>, <<>>, <<-2>>}, b \in {<<25>>, <<>>},
     c \in {<<3>>, <<>>, <<NaN>>}, s \in {COMMA, COLON}, t \in {COMMA, RBRACKET},
     e \in BOOLEAN, w \in {<<>>, <<SP>>}}

\* r is the cursor after next_vector
VectorReturns(r) ==
  IF r.err # ""
    THEN /\ LexExit(r)
         /\ call' = [call EXCEPT !.stage = "exit"]
    ELSE /\ pos' = r.pos
         /\ line' = r.line
         /\ call' = [call EXCEPT !.stage = "done", !.ret = r.val]
         /\ UNCHANGED <<status, err>>

\* a call of next_vector, g being what the three doubles of next_number hold
\* before fscanf
VectorRead ==
  /\ call.fn = "next_vector"
  /\ call.stage = "start"
  /\ \E g \in Garbage3 : VectorReturns(next_vector(Here, g))
  /\ UNCHANGED <<scene, input, json, pc, i, cam, obj, objectArray>>

InitLexer ==
  /\ Idle
  /\ \/ \E t \in StringTexts, e \in {<<>>, <<COLON>>} :
          call = StringCall(t, TRUE) /\ input = Quoted(t) \o e
     \/ /\ call = StringCall(<<>>, FALSE)
        /\ input \in {<<>>, <<COLON>>, <<QUOTE, 97>>, <<QUOTE, 97, BACKSLASH, 110, QUOTE>>,
                      <<QUOTE, 9, QUOTE>>, <<QUOTE, 97, 127, QUOTE>>}
     \/ \E d \in VectorDescs :
          /\ call = [fn |-> "next_vector", desc |-> d, stage |-> "start", ret |-> <<>>]
          /\ input = VectorText(d)

NextLexer ==
  \/ StringStart
  \/ StringChar
  \/ StringEnd
  \/ VectorRead

SpecLexer == InitLexer /\ [][NextLexer]_vars

(***************************************************************************)
(* C18.  next_string, on a double-quoted string of k printable             *)
(* non-backslash characters, returns exactly those k characters when       *)
(* k <= 128 and fails fatally when k > 128; in every step the write index  *)
(* into its 129-byte buffer stays within 0..128, the write of the          *)
(* terminating zero included.                                              *)
(***************************************************************************)
C18_StringWithinBuffer ==
  call.fn = "next_string" =>
    /\ \A w \in DOMAIN call.buffer : w >= 0 /\ w <= MaxString
    /\ call.quoted =>
         /\ call.stage = "done" => (Len(call.text) <= MaxString /\ call.ret = call.text)
         /\ call.stage = "exit" => (Len(call.text) > MaxString /\ err = "string_too_long")

\* a text of 128 characters was returned, the zero written at index 128
C18_Witness ==
  /\ call.fn = "next_string"
  /\ call.quoted
  /\ call.stage = "done"
  /\ Len(call.ret) = MaxString
  /\ DOMAIN call.buffer = 0..MaxString

\* the text of a vector is '[', a number, ',', a number, ',', a number, ']'
WellFormedVector(d) ==
  /\ d.open
  /\ d.close
  /\ d.seps = <<COMMA, COMMA>>
  /\ \A j \in 1..3 : Len(d.nums[j]) = 1

(***************************************************************************)
(* C19.  next_vector succeeds only when the input at the cursor is '[', a  *)
(* number, ',', a number, ',', a number, ']' (optional whitespace around   *)
(* each token) and then returns exactly those three numbers in order; for  *)
(* any other input, one where a number is missing between the punctuation  *)
(* marks included, it fails fatally and returns no value.                  *)
(***************************************************************************)
C19_VectorOnlyFromThreeNumbers ==
  (call.fn = "next_vector" /\ call.stage = "done") =>
    /\ WellFormedVector(call.desc)
    /\ call.ret = <<call.desc.nums[1][1], call.desc.nums[2][1], call.desc.nums[3][1]>>

\* the key whose flag a duplicate-field error speaks of
FlagKey(e) ==
  IF e \in {"camera_width_given"} THEN W_width
  ELSE IF e \in {"camera_height_given"} THEN W_height
  ELSE IF e \in {"sphere_radius_given"} THEN W_radius
  ELSE IF e \in {"sphere_color_given", "plane_color_given", "light_color_given"} THEN W_color
  ELSE IF e \in {"sphere_position_given", "plane_position_given", "light_position_given"}
    THEN W_position
  ELSE IF e = "plane_normal_given" THEN W_empty
  ELSE W_normal

DuplicateErrors ==
  {"camera_width_given", "camera_height_given", "sphere_radius_given", "sphere_color_given",
   "sphere_position_given", "plane_color_given", "plane_position_given", "plane_normal_given",
   "light_color_given", "light_position_given", "light_normal_given"}

(***************************************************************************)
(* C20.  Every presence flag that a duplicate-field check or a             *)
(* required-field check reads was set to false at the start of the object  *)
(* being parsed, for every kind of object, so no verdict depends on an     *)
(* uninitialised flag: a duplicate-field error is raised only in an object *)
(* that gives the key of the flag twice.                                   *)
(***************************************************************************)
C20_FlagsAreInitialised ==
  (pc = "exit" /\ err \in DuplicateErrors) =>
    \E k \in Current : GivesTwice(scene.objs[k], FlagKey(err))

====
